---- MODULE Spec2Model ----
(***************************************************************************)
(* StudyBuddy AI: the React client (App.jsx) as a state machine, and the   *)
(* retrieval/generation core the client talks to.                          *)
(*                                                                         *)
(* A JavaScript string is a sequence of one-character strings.  The fixed  *)
(* Chinese literals of App.jsx are written as one opaque ASCII token each  *)
(* (the module's strings must be ASCII); no handler looks inside them.     *)
(* null and '' are both falsy and the handlers only test truthiness, so    *)
(* null is the empty sequence.                                             *)
(*                                                                         *)
(* A fetch in flight is an entry of net; the continuation after the await  *)
(* is a separate action that consumes a response.  State setters with a    *)
(* functional update (prev => ...) read the current state; everything else *)
(* the continuation uses was captured when the handler was called and      *)
(* travels in the net entry.                                               *)
(*                                                                         *)
(* toasts are not modelled: showToast only appends a notification that a   *)
(* timer removes, and no handler reads it.                                 *)
(***************************************************************************)
EXTENDS Integers, Sequences, FiniteSets, TLC

VARIABLES
    \* App (useState hooks, App.jsx 390-408)
    inputMode, imageStyle,
    messages, inputValue, isLoading, imageHistory,
    showRecommendations, recommendations, isLoadingRecommendations,
    documents, displayNames, isUploading,
    \* window.localStorage['studybuddy_display_names']
    localStorage,
    \* fetches in flight
    net,
    \* ChatMessage: the source being rendered and the badge shown for it
    source, badge,
    \* the recommendations popup: the rec-icon rendered for each recommendation
    icons,
    \* the effects of a commit that have not run yet, each with the state of
    \* the render that scheduled it
    effects,
    \* the core: the vector index, the Document of each id (absent, indexed
    \* or removed), and the request being orchestrated
    index, catalog, phase, kind, attempts, retrieved, plan, failure,
    \* the backend behind /upload/: the documents it holds and the number of
    \* ids it has given out
    store

modeVars == <<inputMode, imageStyle>>
chatVars == <<messages, inputValue, isLoading, imageHistory>>
recVars == <<showRecommendations, recommendations, isLoadingRecommendations>>
docVars == <<documents, displayNames, isUploading, localStorage>>

appVars == <<modeVars, chatVars, recVars, docVars, net>>

viewVars == <<source, badge, icons, effects>>
coreVars == <<index, catalog, phase, kind, attempts, retrieved, plan, failure, store>>
\* what no App handler touches
outside == <<viewVars, coreVars>>

vars == <<appVars, viewVars, coreVars>>

(***************************************************************************)
(* Bounds of the model                                                     *)
(***************************************************************************)
\* submissions are accepted while the conversation is shorter than this
MaxMessages == 3
\* the knowledge-base specification starts a fetch while fewer are in flight
MaxInFlight == 1
\* an upload is started while the document list is shorter than this
MaxDocuments == 1
\* a relevance score is a multiple of 1/ScoreScale
ScoreScale == 1000
\* scores range from -ScoreMargin/ScoreScale to 1 + ScoreMargin/ScoreScale
ScoreMargin == 300
\* chunks of an ingested document
MaxChunks == 2
\* top_k of a query
TopK == 2
\* replies are up to this much shorter or longer than the summary limit
MaxReplyExcess == 2
\* files dropped at once
MaxFiles == 2
\* exchanges of the conversation a visualization is asked in
MaxTurns == 4
\* topics of a recommendations response
MaxTopics == 2
\* requests of the knowledge base in flight at once
MaxPending == 2
\* display names in localStorage when the page is opened
MaxStored == 2

(***************************************************************************)
(* JavaScript string and array primitives                                  *)
(***************************************************************************)
Null == << >>

Whitespace == {" ", "\n", "\t"}

Min(a, b) == IF a <= b THEN a ELSE b
Max(a, b) == IF a >= b THEN a ELSE b

RECURSIVE TrimStart(_)
TrimStart(s) ==
    IF s # << >> /\ Head(s) \in Whitespace THEN TrimStart(Tail(s)) ELSE s

RECURSIVE TrimEnd(_)
TrimEnd(s) ==
    IF s # << >> /\ s[Len(s)] \in Whitespace
    THEN TrimEnd(SubSeq(s, 1, Len(s) - 1)) ELSE s

\* String.prototype.trim
Trim(s) == TrimEnd(TrimStart(s))

\* a string is falsy iff it is empty
Truthy(s) == s # << >>

\* String.prototype.substring(a, b): both ends clamped to 0..length, swapped
\* when a > b
Substring(s, a, b) ==
    LET ca == Max(0, Min(a, Len(s)))
        cb == Max(0, Min(b, Len(s)))
    IN  SubSeq(s, Min(ca, cb) + 1, Max(ca, cb))

\* Array.prototype.slice(start) with one argument; a negative start counts
\* from the end
Slice(s, start) ==
    LET from == IF start < 0 THEN Max(Len(s) + start, 0) ELSE Min(start, Len(s))
    IN  SubSeq(s, from + 1, Len(s))

\* Array.prototype.map
Map(s, f(_)) == [i \in 1..Len(s) |-> f(s[i])]

\* Array.prototype.join
RECURSIVE Join(_, _)
Join(parts, sep) ==
    IF parts = << >> THEN << >>
    ELSE IF Len(parts) = 1 THEN parts[1]
    ELSE parts[1] \o sep \o Join(Tail(parts), sep)

\* the sequence without its i-th element
RemoveAt(s, i) == SubSeq(s, 1, i - 1) \o SubSeq(s, i + 1, Len(s))

(***************************************************************************)
(* Literals of App.jsx                                                     *)
(***************************************************************************)
\* 'user' / 'assistant' as they appear inside a template literal
RoleText(role) ==
    IF role = "user" THEN <<"u", "s", "e", "r">>
    ELSE <<"a", "s", "s", "i", "s", "t", "a", "n", "t">>

ConnectFailedText == <<"[cannot-reach-server-check-backend]">>   \* 571, 637
SorryPrefix == <<"[sorry-request-failed:]">>                     \* 565
UnknownErrorText == <<"[unknown-error]">>                        \* 565
ImageFailedText == <<"[sorry-image-generation-failed]">>         \* 630
ImageModePrefix == <<"[palette-generate-diagram:]">>             \* 586
GeneratedFor(prompt) == <<"[generated-for<]">> \o prompt \o <<"[>diagram]">> \* 615
GeneratePrefix == <<"[generate-diagram-from-content:]">>         \* 782

\* content.substring(0, 2000)
SummaryLimit == 2000
\* messages.slice(-6)
HistoryWindow == 6
AspectRatio == "16:9"

\* VisualizationRequest.style of the specification
ImageStyles == {"mindmap", "diagram", "educational"}
InputModes == {"chat", "image"}

(***************************************************************************)
(* What the user can type and what the server can answer                   *)
(***************************************************************************)
Inputs == {<< >>, <<" ">>, <<"q">>}

DocA == [id |-> "d1", filename |-> <<"a">>, file_type |-> "pdf", chunk_count |-> 1]

Topic == [type |-> "overview", title |-> <<"T">>, description |-> <<"t">>,
          prompt |-> <<"r">>]

\* a response: the fetch rejects (network = FALSE), or resolves with res.ok
\* and a body that res.json() parses (parses = TRUE, data) or throws on
Rejected == [network |-> FALSE, ok |-> FALSE, parses |-> FALSE, data |-> [none |-> 0]]
Resolved(ok, data) == [network |-> TRUE, ok |-> ok, parses |-> TRUE, data |-> data]
Garbled(ok) == [network |-> TRUE, ok |-> ok, parses |-> FALSE, data |-> [none |-> 0]]

AskResponses ==
    {Rejected, Garbled(TRUE), Garbled(FALSE),
     Resolved(TRUE, [answer |-> <<"A">>,
                     sources |-> <<[document_id |-> "d1", document_name |-> <<"a">>,
                                    relevance_score |-> 1]>>]),
     Resolved(FALSE, [detail |-> <<"E">>]),
     Resolved(FALSE, [status |-> 500])}

VisualizeResponses ==
    {Rejected, Garbled(TRUE), Resolved(FALSE, [detail |-> <<"E">>]),
     Resolved(TRUE, [description |-> <<"D">>, image_base64 |-> "png"]),
     Resolved(TRUE, [image_base64 |-> "png"])}

RecommendResponses ==
    {Rejected, Garbled(TRUE), Resolved(FALSE, [detail |-> <<"E">>]),
     Resolved(TRUE, [topics |-> <<Topic>>]),
     Resolved(TRUE, [topics |-> << >>]),
     Resolved(TRUE, [status |-> 200])}

ListResponses ==
    {Rejected, Garbled(TRUE), Resolved(FALSE, [detail |-> <<"E">>]),
     Resolved(TRUE, [documents |-> << >>]),
     Resolved(TRUE, [documents |-> <<DocA>>])}

\* res.ok and `await res.json()` returned
Parsed(resp) == resp.network /\ resp.parses


DocB == [id |-> "d2", filename |-> <<"b">>, file_type |-> "txt", chunk_count |-> 2]

\* the document the server makes of an accepted upload
Ingested(id, file) ==
    [id |-> id, filename |-> file.name, file_type |-> "txt", chunk_count |-> 1]

ServerIds == {"d1", "d2"}

UploadResponses(file) ==
    {Rejected, Garbled(TRUE), Garbled(FALSE), Resolved(FALSE, [detail |-> <<"E">>])}
    \cup {Resolved(TRUE, Ingested(id, file)) : id \in ServerIds}

\* DELETE /upload/{id}: only res.ok is read
DeleteResponses == {Rejected, Resolved(FALSE, [detail |-> <<"E">>]),
                    Resolved(TRUE, [status |-> 200])}

(***************************************************************************)
(* A JavaScript object with string keys: its properties in insertion order *)
(***************************************************************************)
Has(obj, k) == \E i \in 1..Len(obj) : obj[i].key = k

\* {...obj, [k]: v}: an existing key keeps its place
Put(obj, k, v) ==
    IF Has(obj, k)
    THEN [i \in 1..Len(obj) |-> IF obj[i].key = k THEN [key |-> k, value |-> v]
                                ELSE obj[i]]
    ELSE Append(obj, [key |-> k, value |-> v])

\* const copy = {...obj}; delete copy[k]
Without(obj, k) ==
    LET keep(p) == p.key # k IN SelectSeq(obj, keep)

\* JSON.stringify of an object whose values are strings
Stringify(obj) ==
    LET pair(p) == <<"'", p.key, "'", ":", "'">> \o p.value \o <<"'">>
    IN  <<"{">> \o Join(Map(obj, pair), <<",">>) \o <<"}">>

(***************************************************************************)
(* FileUpload (App.jsx 122-172)                                            *)
(***************************************************************************)
UpperCase == <<"A", "B", "C", "D", "E", "F", "G", "H", "I", "J", "K", "L", "M",
               "N", "O", "P", "Q", "R", "S", "T", "U", "V", "W", "X", "Y", "Z">>
LowerCase == <<"a", "b", "c", "d", "e", "f", "g", "h", "i", "j", "k", "l", "m",
               "n", "o", "p", "q", "r", "s", "t", "u", "v", "w", "x", "y", "z">>

\* String.prototype.toLowerCase
ToLowerCase(s) ==
    LET lower(c) == IF \E i \in 1..26 : UpperCase[i] = c
                    THEN LowerCase[CHOOSE i \in 1..26 : UpperCase[i] = c]
                    ELSE c
    IN  Map(s, lower)

\* String.prototype.split with a one-character separator
RECURSIVE Split(_, _)
Split(s, sep) ==
    IF \E i \in 1..Len(s) : s[i] = sep
    THEN LET i == CHOOSE j \in 1..Len(s) :
                      s[j] = sep /\ \A k \in 1..(j - 1) : s[k] # sep
         IN  <<SubSeq(s, 1, i - 1)>> \o Split(SubSeq(s, i + 1, Len(s)), sep)
    ELSE <<s>>

\* Array.prototype.pop: the last element (split never returns an empty array)
Pop(arr) == arr[Len(arr)]

\* ['pdf', 'pptx', 'docx', 'txt'] (143)
AllowedExtensions ==
    {<<"p", "d", "f">>, <<"p", "p", "t", "x">>, <<"d", "o", "c", "x">>,
     <<"t", "x", "t">>}

\* const ext = file.name.split('.').pop().toLowerCase() (142)
Ext(file) == ToLowerCase(Pop(Split(file.name, ".")))

\* the test of handleFiles (143)
Accepted(file) == Ext(file) \in AllowedExtensions

\* POST /upload/ of handleUpload (480-487)
UploadFetch(file) == [kind |-> "upload", url |-> "/upload/", file |-> file]

(***************************************************************************)
(* App: handlers                                                           *)
(***************************************************************************)
\* onChange of the textarea (865) and a click on a welcome suggestion (771)
setInputValue(v) ==
    /\ inputValue' = v
    /\ UNCHANGED <<outside, modeVars, messages, isLoading, imageHistory, recVars,
                   docVars, net>>

\* the two mode buttons (805-816)
setInputMode(m) ==
    /\ inputMode' = m
    /\ UNCHANGED <<outside, imageStyle, chatVars, recVars, docVars, net>>

\* mutant of StyleButtons: one button sets a style the server does not know
StyleButtons_Flowchart == {"mindmap", "flowchart", "educational"}

\* the values the three style buttons set (822-839)
StyleButtons == {"mindmap", "diagram", "educational"}

\* a style button; the selector is rendered in image mode only (818)
setImageStyle(s) ==
    /\ inputMode = "image"
    /\ s \in StyleButtons
    /\ imageStyle' = s
    /\ UNCHANGED <<outside, inputMode, chatVars, recVars, docVars, net>>

\* JSON body of POST /qa/ask (550)
AskBody(question) == [question |-> question]

\* mutant of handleSend: isLoading is not read
handleSend_Unguarded ==
    /\ Trim(inputValue) # << >>
    /\ messages' = Append(messages, [role |-> "user", content |-> inputValue])
    /\ inputValue' = << >>
    /\ isLoading' = TRUE
    /\ net' = Append(net, [kind |-> "ask", url |-> "/qa/ask",
                           body |-> AskBody(inputValue),
                           messages |-> messages])
    /\ UNCHANGED <<outside, modeVars, imageHistory, recVars, docVars>>

\* handleSend up to its await (538-551)
handleSend ==
    /\ ~(Trim(inputValue) = << >> \/ isLoading)
    /\ messages' = Append(messages, [role |-> "user", content |-> inputValue])
    /\ inputValue' = << >>
    /\ isLoading' = TRUE
    /\ net' = Append(net, [kind |-> "ask", url |-> "/qa/ask",
                           body |-> AskBody(inputValue),
                           messages |-> messages])
    /\ UNCHANGED <<outside, modeVars, imageHistory, recVars, docVars>>

\* `${m.role}: ${m.content}`
HistoryLine(m) == RoleText(m.role) \o <<":", " ">> \o m.content

\* mutant of ConversationHistory: the window is the oldest messages
ConversationHistory_Oldest(msgs) ==
    Join(Map(SubSeq(msgs, 1, Min(HistoryWindow, Len(msgs))), HistoryLine), <<"\n">>)

\* messages.slice(-6).map(...).join('\n') (594-597)
ConversationHistory(msgs) ==
    Join(Map(Slice(msgs, 0 - HistoryWindow), HistoryLine), <<"\n">>)

\* JSON body of POST /generate/visualization (602-607)
VisualizeBody(prompt, style, msgs) ==
    [prompt |-> prompt, style |-> style,
     conversation_history |-> ConversationHistory(msgs),
     aspect_ratio |-> AspectRatio]

\* handleGenerateImage up to its await (579-608)
handleGenerateImage(customPrompt) ==
    LET prompt == IF Truthy(customPrompt) THEN customPrompt ELSE inputValue
    IN  /\ ~(Trim(prompt) = << >> \/ isLoading)
        /\ messages' = Append(messages,
               [role |-> "user",
                content |-> IF inputMode = "image"
                            THEN ImageModePrefix \o prompt ELSE prompt])
        /\ inputValue' = IF ~Truthy(customPrompt) THEN << >> ELSE inputValue
        /\ isLoading' = TRUE
        /\ net' = Append(net, [kind |-> "visualize",
                               url |-> "/generate/visualization",
                               body |-> VisualizeBody(prompt, imageStyle, messages),
                               prompt |-> prompt,
                               messages |-> messages])
        /\ UNCHANGED <<outside, modeVars, imageHistory, recVars, docVars>>

\* handleSubmit (646-652): the send button and Enter without Shift
handleSubmit ==
    IF inputMode = "chat" THEN handleSend ELSE handleGenerateImage(Null)

\* mutant of SummaryPrompt: the cut is one character late
SummaryPrompt_OneMore(content) ==
    GeneratePrefix \o Substring(content, 0, SummaryLimit + 1)

\* the prompt the generate-from-reply button builds (781-782)
SummaryPrompt(content) == GeneratePrefix \o Substring(content, 0, SummaryLimit)

\* onGenerateFromContent of the idx-th message (779-783); the button is
\* rendered on assistant messages only (326)
onGenerateFromContent(idx) ==
    /\ idx \in 1..Len(messages)
    /\ messages[idx].role = "assistant"
    /\ handleGenerateImage(SummaryPrompt(messages[idx].content))

\* the assistant message handleSend appends for a response (553-572)
AskReply(resp) ==
    IF Parsed(resp) /\ resp.ok
    THEN [role |-> "assistant", content |-> resp.data.answer,
          sources |-> resp.data.sources]
    ELSE IF Parsed(resp)
    THEN [role |-> "assistant",
          content |-> SorryPrefix \o
                      (IF "detail" \in DOMAIN resp.data /\ Truthy(resp.data.detail)
                       THEN resp.data.detail ELSE UnknownErrorText)]
    ELSE [role |-> "assistant", content |-> ConnectFailedText]

\* mutant of AskSettles: a rejected fetch or an unreadable body is not caught
AskSettles_NoCatch(i, resp) ==
    /\ i \in 1..Len(net)
    /\ net[i].kind = "ask"
    /\ messages' = IF Parsed(resp) THEN Append(messages, AskReply(resp)) ELSE messages
    /\ isLoading' = FALSE
    /\ net' = RemoveAt(net, i)
    /\ UNCHANGED <<outside, modeVars, inputValue, imageHistory, recVars, docVars>>

\* handleSend after its await (553-575)
AskSettles(i, resp) ==
    /\ i \in 1..Len(net)
    /\ net[i].kind = "ask"
    /\ messages' = Append(messages, AskReply(resp))
    /\ isLoading' = FALSE
    /\ net' = RemoveAt(net, i)
    /\ UNCHANGED <<outside, modeVars, inputValue, imageHistory, recVars, docVars>>

\* the assistant message handleGenerateImage appends for a response (610-638);
\* a non-ok response is not parsed
VisualizeReply(req, resp) ==
    IF resp.network /\ resp.ok /\ resp.parses
    THEN [role |-> "assistant",
          content |-> IF "description" \in DOMAIN resp.data
                         /\ Truthy(resp.data.description)
                      THEN resp.data.description ELSE GeneratedFor(req.prompt),
          imageBase64 |-> resp.data.image_base64]
    ELSE IF resp.network /\ ~resp.ok
    THEN [role |-> "assistant", content |-> ImageFailedText]
    ELSE [role |-> "assistant", content |-> ConnectFailedText]

\* handleGenerateImage after its await (610-642)
VisualizeSettles(i, resp) ==
    /\ i \in 1..Len(net)
    /\ net[i].kind = "visualize"
    /\ messages' = Append(messages, VisualizeReply(net[i], resp))
    /\ imageHistory' =
           IF resp.network /\ resp.ok /\ resp.parses
           THEN Append(imageHistory, [prompt |-> net[i].prompt,
                                      imageBase64 |-> resp.data.image_base64])
           ELSE imageHistory
    /\ isLoading' = FALSE
    /\ net' = RemoveAt(net, i)
    /\ UNCHANGED <<outside, modeVars, inputValue, recVars, docVars>>

\* m => ({role: m.role, content: m.content})
RoleAndContent(m) == [role |-> m.role, content |-> m.content]

DocId(d) == d.id

\* JSON body of POST /recommendations/* (678-684)
RecommendBody(docs, msgs) ==
    [document_ids |-> Map(docs, DocId),
     conversation_history |-> Map(msgs, RoleAndContent)]

\* the test documents.length === 0 (664)
NoDocuments(docs) == Len(docs) = 0

\* mutant of handleShowRecommendations: the empty-corpus branch is missing
handleShowRecommendations_AlwaysFetch ==
    /\ ~isLoadingRecommendations
    /\ isLoadingRecommendations' = TRUE
    /\ showRecommendations' = TRUE
    /\ net' = Append(net,
           [kind |-> "recommend",
            url |-> IF inputMode = "chat" THEN "/recommendations/chat"
                    ELSE "/recommendations/visualization",
            body |-> RecommendBody(documents, messages),
            messages |-> messages])
    /\ UNCHANGED <<outside, recommendations, modeVars, chatVars, docVars>>

\* handleShowRecommendations up to its await (662-685); the button is
\* disabled while isLoadingRecommendations (851)
handleShowRecommendations ==
    /\ ~isLoadingRecommendations
    /\ IF NoDocuments(documents)
       THEN /\ recommendations' = << >>
            /\ showRecommendations' = TRUE
            /\ UNCHANGED <<isLoadingRecommendations, net>>
       ELSE /\ isLoadingRecommendations' = TRUE
            /\ showRecommendations' = TRUE
            /\ net' = Append(net,
                   [kind |-> "recommend",
                    url |-> IF inputMode = "chat" THEN "/recommendations/chat"
                            ELSE "/recommendations/visualization",
                    body |-> RecommendBody(documents, messages),
                    messages |-> messages])
            /\ UNCHANGED recommendations
    /\ UNCHANGED <<outside, modeVars, chatVars, docVars>>

\* handleShowRecommendations after its await (687-696)
RecommendSettles(i, resp) ==
    /\ i \in 1..Len(net)
    /\ net[i].kind = "recommend"
    /\ recommendations' =
           IF Parsed(resp) /\ resp.ok /\ "topics" \in DOMAIN resp.data
           THEN resp.data.topics ELSE << >>
    /\ isLoadingRecommendations' = FALSE
    /\ net' = RemoveAt(net, i)
    /\ UNCHANGED <<outside, modeVars, chatVars, showRecommendations, docVars>>

\* handleSelectRecommendation (700-703); a bubble is rendered in the open
\* popup once loading is over (878, 890-898)
handleSelectRecommendation(rec) ==
    /\ showRecommendations /\ ~isLoadingRecommendations
    /\ \E k \in 1..Len(recommendations) : recommendations[k] = rec
    /\ inputValue' = rec.prompt
    /\ showRecommendations' = FALSE
    /\ UNCHANGED <<outside, modeVars, messages, isLoading, imageHistory, recommendations,
                   isLoadingRecommendations, docVars, net>>

\* the close button of the popup (882-887)
closeRecommendations ==
    /\ showRecommendations
    /\ showRecommendations' = FALSE
    /\ UNCHANGED <<outside, modeVars, chatVars, recommendations,
                   isLoadingRecommendations, docVars, net>>

\* fetchDocuments after its await (469-475)
ListSettles(i, resp) ==
    /\ i \in 1..Len(net)
    /\ net[i].kind = "list"
    /\ documents' = IF Parsed(resp) /\ resp.ok THEN resp.data.documents
                    ELSE documents
    /\ net' = RemoveAt(net, i)
    /\ UNCHANGED <<outside, modeVars, chatVars, recVars, displayNames, isUploading,
                   localStorage>>

\* handleFiles (140-147) with onUpload = handleUpload (746): every accepted
\* file, in order, runs handleUpload up to its await (479-487)
handleFiles(files) ==
    LET accepted == SelectSeq(files, Accepted)
    IN  /\ isUploading' = IF accepted # << >> THEN TRUE ELSE isUploading
        /\ net' = net \o Map(accepted, UploadFetch)
        /\ UNCHANGED <<outside, modeVars, chatVars, recVars, documents, displayNames,
                       localStorage>>

\* handleUpload after its await (489-506); the save effect (428-430) runs on
\* the new displayNames
UploadSettles(i, resp) ==
    /\ i \in 1..Len(net)
    /\ net[i].kind = "upload"
    /\ IF Parsed(resp) /\ resp.ok
       THEN /\ documents' = Append(documents, resp.data)
            /\ displayNames' = Put(displayNames, resp.data.id, net[i].file.name)
            /\ localStorage' = Stringify(displayNames')
       ELSE UNCHANGED <<documents, displayNames, localStorage>>
    /\ isUploading' = FALSE
    /\ net' = RemoveAt(net, i)
    /\ UNCHANGED <<outside, modeVars, chatVars, recVars>>

\* handleDelete up to its await (509-513); a trash button per listed document
handleDelete(docId) ==
    /\ \E k \in 1..Len(documents) : documents[k].id = docId
    /\ net' = Append(net, [kind |-> "delete", url |-> <<"/upload/", docId>>,
                           docId |-> docId])
    /\ UNCHANGED <<outside, modeVars, chatVars, recVars, docVars>>

\* mutant of DeleteSettles: the document is removed whatever the response
DeleteSettles_Optimistic(i, resp) ==
    /\ i \in 1..Len(net)
    /\ net[i].kind = "delete"
    /\ LET keep(d) == d.id # net[i].docId
       IN  documents' = SelectSeq(documents, keep)
    /\ displayNames' = Without(displayNames, net[i].docId)
    /\ localStorage' = Stringify(displayNames')
    /\ net' = RemoveAt(net, i)
    /\ UNCHANGED <<outside, modeVars, chatVars, recVars, isUploading>>

\* handleDelete after its await (515-527); the save effect (428-430) runs on
\* the new displayNames
DeleteSettles(i, resp) ==
    /\ i \in 1..Len(net)
    /\ net[i].kind = "delete"
    /\ IF resp.network /\ resp.ok
       THEN /\ LET keep(d) == d.id # net[i].docId
               IN  documents' = SelectSeq(documents, keep)
            /\ displayNames' = Without(displayNames, net[i].docId)
            /\ localStorage' = Stringify(displayNames')
       ELSE UNCHANGED <<documents, displayNames, localStorage>>
    /\ net' = RemoveAt(net, i)
    /\ UNCHANGED <<outside, modeVars, chatVars, recVars, isUploading>>

(***************************************************************************)
(* ChatMessage: the relevance badge of a source (App.jsx 313-321)          *)
(*                                                                         *)
(* A relevance_score is a number of 1/ScoreScale units.                    *)
(***************************************************************************)
\* Math.round(num / den): the nearest integer, a half rounds up
MathRound(num, den) == (2 * num + den) \div (2 * den)

\* mutant of Percent: the clamp is missing
Percent_Unclamped(score) == MathRound(score * 100, ScoreScale)

\* Math.min(100, Math.round(source.relevance_score * 100)) (318)
Percent(score) == Min(100, MathRound(score * 100, ScoreScale))

Scores == (0 - ScoreMargin)..(ScoreScale + ScoreMargin)

\* no message with a source is on screen
ViewIdle == source = << >> /\ badge = << >> /\ icons = << >> /\ effects = << >>

\* a message with one source is rendered (310-321)
ShowSource(score) ==
    /\ source' = <<[document_id |-> "d1", document_name |-> <<"a">>,
                    relevance_score |-> score]>>
    /\ badge' = <<Percent(score)>>
    /\ UNCHANGED <<appVars, coreVars, icons, effects>>

(***************************************************************************)
(* The recommendations popup: the icon of a recommendation (App.jsx        *)
(* 898-910)                                                                *)
(***************************************************************************)
\* mutant of RecIcon: review has no icon of its own
RecIcon_NoReview(type) ==
    IF type = "overview" THEN "[globe]"
    ELSE IF type = "chapter" THEN "[bookmark-tabs]"
    ELSE IF type = "summary" THEN "[memo]"
    ELSE IF type = "qa" THEN "[question-mark]"
    ELSE "[magnifier]"

\* the chain of conditionals on rec.type (905-909); === compares strings
\* exactly
RecIcon(type) ==
    IF type = "overview" THEN "[globe]"
    ELSE IF type = "chapter" THEN "[bookmark-tabs]"
    ELSE IF type = "summary" THEN "[memo]"
    ELSE IF type = "qa" THEN "[question-mark]"
    ELSE IF type = "review" THEN "[graduation-cap]"
    ELSE "[magnifier]"

\* the list of recommendations is rendered (895-910): the popup is open,
\* nothing is loading and the list is not empty
ShowRecommendationItems ==
    /\ showRecommendations /\ ~isLoadingRecommendations
    /\ Len(recommendations) # 0
    /\ LET item(rec) == [type |-> rec.type, icon |-> RecIcon(rec.type)]
       IN  icons' = Map(recommendations, item)
    /\ UNCHANGED <<appVars, coreVars, source, badge, effects>>

(***************************************************************************)
(* The core (backend/app, not among the sources): the vector index of      *)
(* section 4.2, the retry policy and the plan -> render pipeline of        *)
(* section 4.5 of the specification                                        *)
(***************************************************************************)
CoreDocs == {"A", "B"}

\* retries of a transiently failing provider call (4.5: "a small fixed bound")
RetryBound == 3

Chunks(d, n) == {[doc |-> d, pos |-> p] : p \in 1..n}

\* the phases in which a provider call is outstanding
Calling == {"Retrieving", "Streaming", "Planning", "Rendering"}

NoFailure == [error |-> "none", stage |-> "none"]

\* attempts made of the provider call of each stage of the request
NoAttempts == [p \in Calling |-> 0]

\* the calls made of the image provider for the request: the render stage
Renders == attempts["Rendering"]

CoreIdle ==
    /\ index = {}
    /\ catalog = [d \in CoreDocs |-> "absent"]
    /\ phase = "Idle"
    /\ kind = "none"
    /\ attempts = NoAttempts
    /\ retrieved = {}
    /\ plan = "none"
    /\ failure = NoFailure
    /\ store = [docs |-> << >>, issued |-> 0]

\* Ingest: the chunks of d replace the ones indexed before (3: "replaced
\* wholesale on re-ingestion")
ingest(d, n) ==
    /\ index' = {c \in index : c.doc # d} \cup Chunks(d, n)
    /\ catalog' = [catalog EXCEPT ![d] = "indexed"]
    /\ UNCHANGED <<phase, kind, attempts, retrieved, plan, failure,
                   appVars, viewVars, store>>

\* mutant of Remaining: only the first chunk of the document is removed
Remaining_FirstChunkOnly(idx, d) == {c \in idx : ~(c.doc = d /\ c.pos = 1)}

\* the index after delete_document(d): all vectors of d are gone (4.2)
Remaining(idx, d) == {c \in idx : c.doc # d}

\* delete_document(d), one atomic step (4.2, 5: writes are linearized)
delete_document(d) ==
    /\ catalog[d] = "indexed"
    /\ index' = Remaining(index, d)
    /\ catalog' = [catalog EXCEPT ![d] = "removed"]
    /\ UNCHANGED <<phase, kind, attempts, retrieved, plan, failure,
                   appVars, viewVars, store>>

\* query(vector, top_k): at most top_k of the indexed chunks (4.2)
QueryResults(idx) == {r \in SUBSET idx : Cardinality(r) <= TopK}

\* a request arrives (4.5: Idle -> Retrieving)
StartRequest(k) ==
    /\ phase = "Idle"
    /\ phase' = "Retrieving"
    /\ kind' = k
    /\ attempts' = NoAttempts
    /\ retrieved' = {}
    /\ plan' = "none"
    /\ failure' = NoFailure
    /\ UNCHANGED <<index, catalog, appVars, viewVars, store>>

\* mutant of AfterPlan: the render stage runs whatever the plan stage did
AfterPlan_AlwaysRender(ok) == "Rendering"

\* 4.5: "Stage 2 only runs if stage 1 succeeds"
AfterPlan(ok) == IF ok THEN "Rendering" ELSE "Failed"

\* mutant of FailFrom: a failed call starts the request over
FailFrom_Restart(p) == "Retrieving"

\* where a failed provider call leaves the request
FailFrom(p) == IF p = "Planning" THEN AfterPlan(FALSE) ELSE "Failed"

\* mutant of MayRetry: a transient failure is always retried
MayRetry_Unbounded(n) == TRUE

\* after the n-th attempt failed transiently: retry while n <= RetryBound
MayRetry(n) == n <= RetryBound

\* one attempt of the outstanding provider call is made
Attempt ==
    /\ phase \in Calling
    /\ attempts' = [attempts EXCEPT ![phase] = @ + 1]

\* the attempt succeeds
ProviderOk ==
    /\ Attempt
    /\ CASE phase = "Retrieving" ->
              /\ \E r \in QueryResults(index) : retrieved' = r
              /\ phase' = "Assembling"
              /\ UNCHANGED plan
         [] phase = "Streaming" ->
              /\ phase' = "Completed"
              /\ UNCHANGED <<retrieved, plan>>
         [] phase = "Planning" ->
              /\ plan' = "outline"
              /\ phase' = AfterPlan(TRUE)
              /\ UNCHANGED retrieved
         [] phase = "Rendering" ->
              /\ phase' = "Completed"
              /\ UNCHANGED <<retrieved, plan>>
    /\ UNCHANGED <<index, catalog, kind, failure, appVars, viewVars, store>>

\* the attempt fails transiently (timeout, 5xx, rate limit): retried up to
\* the bound, then surfaced as ProviderError
ProviderTransient ==
    /\ Attempt
    /\ IF MayRetry(attempts[phase] + 1)
       THEN UNCHANGED <<phase, failure>>
       ELSE /\ phase' = FailFrom(phase)
            /\ failure' = [error |-> "transient", stage |-> phase]
    /\ UNCHANGED <<index, catalog, kind, retrieved, plan, appVars, viewVars, store>>

\* the attempt fails permanently (auth, quota, malformed): never retried
ProviderPermanent ==
    /\ Attempt
    /\ phase' = FailFrom(phase)
    /\ failure' = [error |-> "permanent", stage |-> phase]
    /\ UNCHANGED <<index, catalog, kind, retrieved, plan, appVars, viewVars, store>>

\* the context is assembled and the generation starts: one streamed
\* completion for QA, the plan stage for a visualization (4.5)
Assemble ==
    /\ phase = "Assembling"
    /\ phase' = IF kind = "qa" THEN "Streaming" ELSE "Planning"
    /\ UNCHANGED <<index, catalog, kind, attempts, retrieved, plan, failure,
                   appVars, viewVars, store>>

\* an unrecoverable error outside a provider call (4.5: Failed is reachable
\* from any non-Idle state; the queue timeout "fails the request")
Unrecoverable ==
    /\ phase = "Assembling"
    /\ phase' = "Failed"
    /\ failure' = [error |-> "unrecoverable", stage |-> phase]
    /\ UNCHANGED <<index, catalog, kind, attempts, retrieved, plan, appVars,
                   viewVars, store>>

\* the request is answered; the orchestrator is free for the next one
Finish ==
    /\ phase \in {"Completed", "Failed"}
    /\ phase' = "Idle"
    /\ UNCHANGED <<index, catalog, kind, attempts, retrieved, plan, failure,
                   appVars, viewVars, store>>

(***************************************************************************)
(* App: the conversation, the recommendations popup and the document list  *)
(* loaded on mount                                                         *)
(***************************************************************************)
\* the useState initial values (390-408) once the mount effects have run on
\* an empty localStorage: fetchDocuments() is in flight (413-414, 468) and
\* the save effect has stored the empty displayNames (428-430)
Init ==
    /\ inputMode = "chat"
    /\ imageStyle = "mindmap"
    /\ messages = << >>
    /\ inputValue = << >>
    /\ isLoading = FALSE
    /\ imageHistory = << >>
    /\ showRecommendations = FALSE
    /\ recommendations = << >>
    /\ isLoadingRecommendations = FALSE
    /\ documents = << >>
    /\ displayNames = << >>
    /\ isUploading = FALSE
    /\ localStorage = Stringify(<< >>)
    /\ net = <<[kind |-> "list", url |-> "/upload/"]>>
    /\ ViewIdle
    /\ CoreIdle

\* the conversation: typing, modes, styles, ask, visualize, recommendations
Next ==
    \/ \E v \in Inputs : setInputValue(v)
    \/ \E m \in InputModes : setInputMode(m)
    \/ \E s \in StyleButtons : setImageStyle(s)
    \/ Len(messages) < MaxMessages /\ handleSubmit
    \/ Len(messages) < MaxMessages /\ \E idx \in 1..Len(messages) : onGenerateFromContent(idx)
    \/ \E i \in 1..Len(net) : \E resp \in AskResponses : AskSettles(i, resp)
    \/ \E i \in 1..Len(net) : \E resp \in VisualizeResponses : VisualizeSettles(i, resp)
    \/ handleShowRecommendations
    \/ \E i \in 1..Len(net) : \E resp \in RecommendResponses : RecommendSettles(i, resp)
    \/ \E rec \in {Topic} : handleSelectRecommendation(rec)
    \/ closeRecommendations
    \/ \E i \in 1..Len(net) : \E resp \in ListResponses : ListSettles(i, resp)

Spec == Init /\ [][Next]_vars

\* a fetch in flight resolves or rejects: the promise of an ask or visualize
\* request settles and its continuation runs
Settles ==
    \E i \in 1..Len(net) :
        \/ \E resp \in AskResponses : AskSettles(i, resp)
        \/ \E resp \in VisualizeResponses : VisualizeSettles(i, resp)

(***************************************************************************)
(* App: the knowledge base (uploads, removals, the list loaded on mount)   *)
(* and the recommendations drawn from it                                   *)
(***************************************************************************)
\* files the user can drop in this specification
DocFiles == {[name |-> <<"a", ".", "t", "x", "t">>], [name |-> <<"b", ".", "e", "x", "e">>]}

DocFileLists == {<<f>> : f \in DocFiles} \cup {<<f, g>> : f \in DocFiles, g \in DocFiles}

NextDocs ==
    \/ /\ Len(net) < MaxInFlight /\ Len(documents) < MaxDocuments
       /\ \E files \in DocFileLists : handleFiles(files)
    \/ \E i \in 1..Len(net) :
           /\ net[i].kind = "upload"
           /\ \E resp \in UploadResponses(net[i].file) : UploadSettles(i, resp)
    \/ Len(net) < MaxInFlight /\ \E docId \in ServerIds : handleDelete(docId)
    \/ \E i \in 1..Len(net) : \E resp \in DeleteResponses : DeleteSettles(i, resp)
    \/ \E i \in 1..Len(net) : \E resp \in ListResponses : ListSettles(i, resp)
    \/ \E m \in InputModes : setInputMode(m)
    \/ Len(net) < MaxInFlight /\ handleShowRecommendations
    \/ \E i \in 1..Len(net) : \E resp \in RecommendResponses : RecommendSettles(i, resp)
    \/ \E rec \in {Topic} : handleSelectRecommendation(rec)
    \/ closeRecommendations

SpecDocs == Init /\ [][NextDocs]_vars

(***************************************************************************)
(* App and the backend behind /upload/: every response is the answer of a  *)
(* server that gives each upload an id of its own                          *)
(***************************************************************************)
\* the ids the server gives out, in this order
IdSequence == <<"d1", "d2">>

\* the request with the response the server has made for it
Answered(req, resp) ==
    [f \in DOMAIN req \cup {"resp"} |-> IF f = "resp" THEN resp ELSE req[f]]

Waiting(i) == i \in 1..Len(net) /\ "resp" \notin DOMAIN net[i]

\* POST /upload/: the file is ingested under a new id, or refused
ServeUpload(i) ==
    /\ Waiting(i) /\ net[i].kind = "upload"
    /\ \/ /\ store.issued < Len(IdSequence)
          /\ LET doc == Ingested(IdSequence[store.issued + 1], net[i].file)
             IN  /\ store' = [docs |-> Append(store.docs, doc),
                              issued |-> store.issued + 1]
                 /\ net' = [net EXCEPT ![i] = Answered(@, Resolved(TRUE, doc))]
       \/ /\ net' = [net EXCEPT ![i] = Answered(@, Resolved(FALSE, [detail |-> <<"E">>]))]
          /\ UNCHANGED store
    /\ UNCHANGED <<modeVars, chatVars, recVars, docVars, viewVars, index, catalog,
                   phase, kind, attempts, retrieved, plan, failure>>

\* GET /upload/: the documents held
ServeList(i) ==
    /\ Waiting(i) /\ net[i].kind = "list"
    /\ net' = [net EXCEPT ![i] = Answered(@, Resolved(TRUE, [documents |-> store.docs]))]
    /\ UNCHANGED <<modeVars, chatVars, recVars, docVars, viewVars, coreVars>>

\* DELETE /upload/{id}: the document is removed, or is not found
ServeDelete(i) ==
    /\ Waiting(i) /\ net[i].kind = "delete"
    /\ LET keep(d) == d.id # net[i].docId
           found == \E k \in 1..Len(store.docs) : store.docs[k].id = net[i].docId
       IN  /\ store' = [store EXCEPT !.docs = SelectSeq(store.docs, keep)]
           /\ net' = [net EXCEPT ![i] =
                         Answered(@, IF found THEN Resolved(TRUE, [status |-> 200])
                                     ELSE Resolved(FALSE, [detail |-> <<"E">>]))]
    /\ UNCHANGED <<modeVars, chatVars, recVars, docVars, viewVars, index, catalog,
                   phase, kind, attempts, retrieved, plan, failure>>

\* the response reaches the client, or the connection fails
Outcomes(i) == IF Waiting(i) THEN {Rejected} ELSE {net[i].resp, Rejected}

NextServed ==
    \/ Len(net) < MaxPending /\ \E files \in DocFileLists : handleFiles(files)
    \/ Len(net) < MaxPending /\ \E docId \in ServerIds : handleDelete(docId)
    \/ \E i \in 1..Len(net) : ServeUpload(i)
    \/ \E i \in 1..Len(net) : ServeList(i)
    \/ \E i \in 1..Len(net) : ServeDelete(i)
    \/ \E i \in 1..Len(net) : \E resp \in Outcomes(i) :
           net[i].kind = "upload" /\ UploadSettles(i, resp)
    \/ \E i \in 1..Len(net) : \E resp \in Outcomes(i) :
           net[i].kind = "list" /\ ListSettles(i, resp)
    \/ \E i \in 1..Len(net) : \E resp \in Outcomes(i) :
           net[i].kind = "delete" /\ DeleteSettles(i, resp)

SpecServed == Init /\ [][NextServed]_vars

(***************************************************************************)
(* App: the mount. The first render has the useState initial values; its   *)
(* effects run in the order they are declared, and a state they set is     *)
(* rendered, and its effects run, after them                               *)
(***************************************************************************)
\* JSON.parse of what Stringify writes
Parse(s) ==
    LET body == SubSeq(s, 2, Len(s) - 1)
        entry(part) == [key |-> part[2], value |-> SubSeq(part, 6, Len(part) - 1)]
    IN  IF body = << >> THEN << >> ELSE Map(Split(body, ","), entry)

\* the mount effect (413-420): fetchDocuments() up to its await, then the
\* saved names are read and, if there are any, set; the render of the new
\* displayNames schedules the save effect again
LoadEffect ==
    /\ effects # << >> /\ Head(effects).effect = "load"
    /\ net' = Append(net, [kind |-> "list", url |-> "/upload/"])
    /\ LET savedNames == localStorage
       IN  IF Truthy(savedNames)
           THEN /\ displayNames' = Parse(savedNames)
                /\ effects' = Append(Tail(effects),
                                     [effect |-> "save", displayNames |-> displayNames'])
           ELSE /\ displayNames' = displayNames
                /\ effects' = Tail(effects)
    /\ UNCHANGED <<modeVars, chatVars, recVars, documents, isUploading, localStorage,
                   source, badge, icons, coreVars>>

\* the save effect (428-430), with the displayNames of the render that
\* scheduled it
SaveEffect ==
    /\ effects # << >> /\ Head(effects).effect = "save"
    /\ localStorage' = Stringify(Head(effects).displayNames)
    /\ effects' = Tail(effects)
    /\ UNCHANGED <<modeVars, chatVars, recVars, documents, displayNames, isUploading,
                   net, source, badge, icons, coreVars>>

\* names a user has given to documents
StoredNames == {<<"a">>, <<"a", ".", "t", "x", "t">>}

\* the maps an earlier visit can have stored: at most MaxStored documents
StoredMaps ==
    {<< >>}
    \cup {<<[key |-> "d1", value |-> v]>> : v \in StoredNames}
    \cup {<<[key |-> "d2", value |-> v]>> : v \in StoredNames}
    \cup (IF MaxStored >= 2
          THEN {<<[key |-> "d1", value |-> v], [key |-> "d2", value |-> w]>> :
                    v \in StoredNames, w \in StoredNames}
          ELSE {})

\* the first render is committed: nothing was ever stored (getItem gives
\* null), or an earlier visit stored a map
InitMount ==
    /\ inputMode = "chat"
    /\ imageStyle = "mindmap"
    /\ messages = << >>
    /\ inputValue = << >>
    /\ isLoading = FALSE
    /\ imageHistory = << >>
    /\ showRecommendations = FALSE
    /\ recommendations = << >>
    /\ isLoadingRecommendations = FALSE
    /\ documents = << >>
    /\ displayNames = << >>
    /\ isUploading = FALSE
    /\ localStorage \in {Null} \cup {Stringify(m) : m \in StoredMaps}
    /\ net = << >>
    /\ source = << >> /\ badge = << >> /\ icons = << >>
    /\ effects = <<[effect |-> "load"], [effect |-> "save", displayNames |-> displayNames]>>
    /\ CoreIdle

\* the mount, then the knowledge base in use
NextMount ==
    \/ LoadEffect
    \/ SaveEffect
    \/ effects = << >> /\ \E i \in 1..Len(net) : \E resp \in ListResponses : ListSettles(i, resp)
    \/ /\ effects = << >> /\ Len(net) < MaxInFlight /\ Len(documents) < MaxDocuments
       /\ \E files \in DocFileLists : handleFiles(files)
    \/ \E i \in 1..Len(net) :
           /\ net[i].kind = "upload"
           /\ \E resp \in UploadResponses(net[i].file) : UploadSettles(i, resp)
    \/ effects = << >> /\ Len(net) < MaxInFlight /\ \E docId \in ServerIds : handleDelete(docId)
    \/ \E i \in 1..Len(net) : \E resp \in DeleteResponses : DeleteSettles(i, resp)

SpecMount == InitMount /\ [][NextMount]_vars

(***************************************************************************)
(* App: a diagram generated from an assistant reply                        *)
(***************************************************************************)
Digits == <<"0", "1", "2", "3", "4", "5", "6", "7", "8", "9">>

\* a reply of n characters, the i-th one telling i modulo 10
Reply(n) == [i \in 1..n |-> Digits[(i % 10) + 1]]

\* the lengths of the replies: empty, short, and around the limit
ReplyLengths ==
    {0, 1} \cup ((SummaryLimit - MaxReplyExcess)..(SummaryLimit + MaxReplyExcess))

\* a conversation of one question and one reply, nothing in flight
InitSummary ==
    /\ inputMode \in InputModes
    /\ imageStyle \in StyleButtons
    /\ \E n \in ReplyLengths :
           messages = <<[role |-> "user", content |-> <<"q">>],
                        [role |-> "assistant", content |-> Reply(n),
                         sources |-> << >>]>>
    /\ inputValue \in {<< >>, <<"q">>}
    /\ isLoading = FALSE
    /\ imageHistory = << >>
    /\ showRecommendations = FALSE
    /\ recommendations = << >>
    /\ isLoadingRecommendations = FALSE
    /\ documents = << >>
    /\ displayNames = << >>
    /\ isUploading = FALSE
    /\ localStorage = Stringify(<< >>)
    /\ net = << >>
    /\ ViewIdle
    /\ CoreIdle

NextSummary ==
    \/ Len(messages) < MaxMessages /\ \E idx \in 1..Len(messages) : onGenerateFromContent(idx)
    \/ \E i \in 1..Len(net) : \E resp \in VisualizeResponses : VisualizeSettles(i, resp)
    \/ \E m \in InputModes : setInputMode(m)

SpecSummary == InitSummary /\ [][NextSummary]_vars

(***************************************************************************)
(* App: a visualization asked for in a conversation under way              *)
(***************************************************************************)
\* a conversation of n messages, questions and replies in turn, each with a
\* content of its own
Conversation(n) ==
    [i \in 1..n |->
        IF i % 2 = 1
        THEN [role |-> "user", content |-> <<"q", Digits[(i % 10) + 1]>>]
        ELSE [role |-> "assistant", content |-> <<"a", Digits[(i % 10) + 1]>>,
              sources |-> << >>]]

\* whole exchanges only: nothing is in flight
InitHistory ==
    /\ inputMode \in InputModes
    /\ imageStyle = "mindmap"
    /\ \E t \in 0..MaxTurns : messages = Conversation(2 * t)
    /\ inputValue = << >>
    /\ isLoading = FALSE
    /\ imageHistory = << >>
    /\ showRecommendations = FALSE
    /\ recommendations = << >>
    /\ isLoadingRecommendations = FALSE
    /\ documents = << >>
    /\ displayNames = << >>
    /\ isUploading = FALSE
    /\ localStorage = Stringify(<< >>)
    /\ net = << >>
    /\ ViewIdle
    /\ CoreIdle

\* no exchange has been added to the conversation the behaviour began with
Unextended == messages = Conversation(Len(messages))

\* one more exchange is followed to its end
NextHistory ==
    \/ \E v \in Inputs : setInputValue(v)
    \/ \E m \in InputModes : setInputMode(m)
    \/ Unextended /\ handleSubmit
    \/ Unextended /\ \E idx \in 1..Len(messages) : onGenerateFromContent(idx)
    \/ \E i \in 1..Len(net) : \E resp \in AskResponses : AskSettles(i, resp)
    \/ \E i \in 1..Len(net) : \E resp \in VisualizeResponses : VisualizeSettles(i, resp)

SpecHistory == InitHistory /\ [][NextHistory]_vars

\* the same, every request in flight settling in the end
SpecLive == InitHistory /\ [][NextHistory]_vars /\ WF_vars(Settles)

(***************************************************************************)
(* FileUpload: the files dropped on, or chosen in, the upload area         *)
(***************************************************************************)
FileStems == {<< >>, <<"a">>, <<"a", ".">>, <<".">>, <<"a", ".", "b", ".">>}

FileEnds ==
    {<< >>, <<"p", "d", "f">>, <<"P", "d", "F">>, <<"t", "x", "t">>,
     <<"T", "X", "T">>, <<"d", "o", "c", "x">>, <<"p", "p", "t", "x">>,
     <<"e", "x", "e">>, <<"p", "d", "f", "x">>, <<"p", "d">>}

\* a file has a name of at least one character
Files == {[name |-> s \o e] : s \in FileStems, e \in FileEnds} \ {[name |-> << >>]}

RECURSIVE ListsUpTo(_, _)
ListsUpTo(S, n) ==
    IF n = 0 THEN {<< >>}
    ELSE LET shorter == ListsUpTo(S, n - 1)
         IN  shorter \cup {Append(l, x) : l \in {m \in shorter : Len(m) = n - 1}, x \in S}

FileLists == ListsUpTo(Files, MaxFiles)

UploadsInFlight == \E i \in 1..Len(net) : net[i].kind = "upload"

\* in this specification the server refuses every upload
UploadRefusals == {Rejected, Garbled(FALSE), Resolved(FALSE, [detail |-> <<"E">>])}

NextFiles ==
    \/ ~UploadsInFlight /\ \E files \in FileLists : handleFiles(files)
    \/ \E i \in 1..Len(net) : \E resp \in UploadRefusals : UploadSettles(i, resp)
    \/ \E i \in 1..Len(net) : \E resp \in ListResponses : ListSettles(i, resp)

SpecFiles == Init /\ [][NextFiles]_vars

(***************************************************************************)
(* ChatMessage: relevance badges                                           *)
(***************************************************************************)
NextBadge == \E score \in Scores : ShowSource(score)

SpecBadge == Init /\ [][NextBadge]_vars

(***************************************************************************)
(* The recommendations popup: icons                                        *)
(***************************************************************************)
\* the types of the specification (6), and strings that are none of them; a
\* topic without a type reads as undefined
RecTypes ==
    {"overview", "chapter", "summary", "qa", "review", "other",
     "", "Overview", "undefined"}

TopicOf(type) ==
    [type |-> type, title |-> <<"T">>, description |-> <<"t">>, prompt |-> <<"r">>]

TopicLists == ListsUpTo({TopicOf(t) : t \in RecTypes}, MaxTopics)

\* the popup is open on the topics of a response
InitIcons ==
    /\ inputMode = "chat"
    /\ imageStyle = "mindmap"
    /\ messages = << >>
    /\ inputValue = << >>
    /\ isLoading = FALSE
    /\ imageHistory = << >>
    /\ showRecommendations = TRUE
    /\ recommendations \in TopicLists
    /\ isLoadingRecommendations = FALSE
    /\ documents = <<DocA>>
    /\ displayNames = << >>
    /\ isUploading = FALSE
    /\ localStorage = Stringify(<< >>)
    /\ net = << >>
    /\ ViewIdle
    /\ CoreIdle

NextIcons ==
    \/ ShowRecommendationItems
    \/ closeRecommendations
    \/ \E k \in 1..Len(recommendations) : handleSelectRecommendation(recommendations[k])

SpecIcons == InitIcons /\ [][NextIcons]_vars

(***************************************************************************)
(* The core: ingestion, removal, and one request at a time                 *)
(***************************************************************************)
NextCore ==
    \/ \E d \in CoreDocs : \E n \in 1..MaxChunks : ingest(d, n)
    \/ \E d \in CoreDocs : delete_document(d)
    \/ \E k \in {"qa", "viz"} : StartRequest(k)
    \/ ProviderOk
    \/ ProviderTransient
    \/ ProviderPermanent
    \/ Assemble
    \/ Unrecoverable
    \/ Finish

SpecCore == Init /\ [][NextCore]_vars

(***************************************************************************)
(* Claims on the conversation (Spec) and the knowledge base (SpecDocs)     *)
(***************************************************************************)
SentKinds == {"ask", "visualize", "recommend"}

\* C2: every ask, visualize and recommend request the client issues carries
\* the conversation history: its body has a conversation_history, and that
\* history is not empty when messages was not empty at the call.
C2_RequestsCarryHistory ==
    \A i \in 1..Len(net) :
        net[i].kind \in SentKinds =>
            /\ "conversation_history" \in DOMAIN net[i].body
            /\ net[i].messages # << >> => net[i].body.conversation_history # << >>

\* the part of C2 the code keeps: visualize and recommend requests carry it
C2_VisualizeAndRecommendCarryHistory ==
    \A i \in 1..Len(net) :
        net[i].kind \in {"visualize", "recommend"} =>
            /\ "conversation_history" \in DOMAIN net[i].body
            /\ net[i].messages # << >> => net[i].body.conversation_history # << >>

\* C3: a click on a recommendation bubble issues, in the same step, a request
\* carrying the recommendation's prompt: an ask in chat mode, a visualize in
\* image mode.
C3_SelectSends ==
    [][\A rec \in {Topic} :
          handleSelectRecommendation(rec) =>
              /\ Len(net') = Len(net) + 1
              /\ LET r == net'[Len(net')]
                 IN  IF inputMode = "chat"
                     THEN r.kind = "ask" /\ r.body.question = rec.prompt
                     ELSE r.kind = "visualize" /\ r.body.prompt = rec.prompt]_vars

\* what the click does instead: the prompt is in the input, nothing is sent
C3_SelectOnlyFills ==
    [][\A rec \in {Topic} :
          handleSelectRecommendation(rec) =>
              inputValue' = rec.prompt /\ net' = net /\ messages' = messages]_vars

\* C6: with an empty document list, a click on the recommend button empties
\* recommendations and opens the popup, issues no request and does not enter
\* the loading state.
C6_EmptyCorpus ==
    [][(Len(documents) = 0 /\ handleShowRecommendations) =>
           /\ recommendations' = << >>
           /\ showRecommendations'
           /\ ~isLoadingRecommendations'
           /\ net' = net]_vars

\* the popup is open on an empty document list, with no topic, nothing
\* loading and no request in flight
C6_Witness ==
    /\ showRecommendations /\ ~isLoadingRecommendations
    /\ Len(documents) = 0 /\ recommendations = << >>
    /\ net = << >>

\* C7: imageStyle is always one of mindmap, diagram, educational, and every
\* visualize request in flight carries such a style and an aspect ratio.
C7_StyleAndAspect ==
    /\ imageStyle \in ImageStyles
    /\ \A i \in 1..Len(net) :
           net[i].kind = "visualize" =>
               /\ net[i].body.style \in ImageStyles
               /\ "aspect_ratio" \in DOMAIN net[i].body
               /\ net[i].body.aspect_ratio = "16:9"

\* a visualize request with a style chosen by a button is in flight after the
\* mode was switched back to chat
C7_Witness ==
    /\ inputMode = "chat"
    /\ \E i \in 1..Len(net) :
           net[i].kind = "visualize" /\ net[i].body.style = "educational"

\* C13: when a DELETE settles with a response that is not ok, or fails on
\* the network, documents and displayNames are unchanged; on an ok response
\* the document and its name are gone and all the others are kept.
C13_FailedDeleteKeeps ==
    [][\A i \in 1..Len(net) : \A resp \in DeleteResponses :
          DeleteSettles(i, resp) =>
              LET d == net[i].docId
                  others(seq) ==
                      {k \in 1..Len(seq) :
                          IF "id" \in DOMAIN seq[k] THEN seq[k].id # d
                          ELSE seq[k].key # d}
              IN  IF resp.network /\ resp.ok
                  THEN /\ \A k \in 1..Len(documents') : documents'[k].id # d
                       /\ \A k \in 1..Len(displayNames') : displayNames'[k].key # d
                       /\ Len(documents') = Cardinality(others(documents))
                       /\ \A k \in others(documents) :
                              \E j \in 1..Len(documents') : documents'[j] = documents[k]
                       /\ Len(displayNames') = Cardinality(others(displayNames))
                       /\ \A k \in others(displayNames) :
                              \E j \in 1..Len(displayNames') :
                                  displayNames'[j] = displayNames[k]
                  ELSE documents' = documents /\ displayNames' = displayNames]_vars

\* the removal of a listed document with a stored name is in flight, and its
\* failure on the network leaves the document and the name in place
C13_Witness ==
    \E i \in 1..Len(net) :
        /\ net[i].kind = "delete"
        /\ \E k \in 1..Len(documents) : documents[k].id = net[i].docId
        /\ Has(displayNames, net[i].docId)
        /\ ENABLED (/\ DeleteSettles(i, Rejected)
                    /\ \E k \in 1..Len(documents') : documents'[k].id = net[i].docId
                    /\ Has(displayNames', net[i].docId))

\* C14: overview, chapter, summary, qa and review are each shown with an icon
\* of their own, every other type (other, and any string outside the set)
\* with the one fallback icon, and every type is shown with an icon.
C14_IconMapping ==
    \A k \in 1..Len(icons) :
        LET e == icons[k]
        IN  /\ e.type = "overview" => e.icon = "[globe]"
            /\ e.type = "chapter" => e.icon = "[bookmark-tabs]"
            /\ e.type = "summary" => e.icon = "[memo]"
            /\ e.type = "qa" => e.icon = "[question-mark]"
            /\ e.type = "review" => e.icon = "[graduation-cap]"
            /\ e.type \notin {"overview", "chapter", "summary", "qa", "review"}
                   => e.icon = "[magnifier]"
            /\ \A j \in 1..Len(icons) :
                   (e.icon = icons[j].icon /\ e.type # icons[j].type)
                       => e.icon = "[magnifier]"

\* a review and a topic of type other are shown side by side
C14_Witness ==
    /\ Len(icons) = 2
    /\ icons[1] = [type |-> "review", icon |-> "[graduation-cap]"]
    /\ icons[2] = [type |-> "other", icon |-> "[magnifier]"]

\* the ask and visualize requests in flight
Outstanding == {i \in 1..Len(net) : net[i].kind \in {"ask", "visualize"}}

\* C15: at most one ask or visualize request is in flight, isLoading is true
\* exactly while there is one, and while it is true neither a submit (click
\* or Enter) nor the generate-from-reply button of any message has an effect.
C15_OneOutstanding ==
    /\ Cardinality(Outstanding) <= 1
    /\ isLoading <=> Outstanding # {}
    /\ isLoading =>
           /\ ~ENABLED handleSubmit
           /\ \A idx \in 1..Len(messages) : ~ENABLED onGenerateFromContent(idx)

\* a request is in flight while the input holds a new question and an
\* earlier reply offers its generate button
C15_Witness ==
    /\ isLoading /\ Cardinality(Outstanding) = 1
    /\ Trim(inputValue) # << >>
    /\ \E idx \in 1..Len(messages) : messages[idx].role = "assistant"

\* C16: a submission that is accepted appends one user message and nothing
\* else; the settling of its request, whatever the response, appends one
\* assistant message and nothing else and ends the loading; messages changes
\* at no other step; and, requests in flight settling, a loading state is
\* always followed by one that is not loading.
C16_OneUserOneAssistant ==
    /\ [][(handleSubmit \/ \E idx \in 1..Len(messages) : onGenerateFromContent(idx)) =>
              /\ Len(messages') = Len(messages) + 1
              /\ SubSeq(messages', 1, Len(messages)) = messages
              /\ messages'[Len(messages')].role = "user"]_vars
    /\ [][(isLoading /\ messages' # messages) =>
              /\ Len(messages') = Len(messages) + 1
              /\ SubSeq(messages', 1, Len(messages)) = messages
              /\ messages'[Len(messages')].role = "assistant"
              /\ ~isLoading']_vars
    /\ [][Settles =>
              /\ Len(messages') = Len(messages) + 1
              /\ messages'[Len(messages')].role = "assistant"
              /\ ~isLoading']_vars
    /\ isLoading ~> ~isLoading

\* an exchange added to a conversation of two is over: the question was
\* answered by a response that was not ok and told no detail
C16_Witness ==
    /\ ~isLoading /\ Outstanding = {}
    /\ Len(messages) = 4
    /\ SubSeq(messages, 1, 2) = Conversation(2)
    /\ messages[3] = [role |-> "user", content |-> <<"q">>]
    /\ messages[4] = [role |-> "assistant", content |-> SorryPrefix \o UnknownErrorText]

\* C17: no document id appears twice in documents.
C17_UniqueIds ==
    \A j, k \in 1..Len(documents) : documents[j].id = documents[k].id => j = k

\* C18: isUploading is true whenever an upload request is in flight.
C18_UploadingWhileOutstanding ==
    (\E i \in 1..Len(net) : net[i].kind = "upload") => isUploading

\* the map a stored value holds; nothing stored holds no name
NamesIn(stored) == IF Truthy(stored) THEN Parse(stored) ELSE << >>

\* C19: no step of the mount removes a stored name from localStorage, and
\* the load effect leaves in displayNames the map that was stored.
C19_NamesSurviveMount ==
    /\ [][effects # << >> =>
              \A k \in 1..Len(NamesIn(localStorage)) :
                  \E j \in 1..Len(NamesIn(localStorage')) :
                      NamesIn(localStorage')[j] = NamesIn(localStorage)[k]]_vars
    /\ [][LoadEffect => displayNames' = NamesIn(localStorage)]_vars

\* the part of C19 the code keeps: once the effects of the mount have all
\* run on a stored map, the map is in displayNames and in localStorage
C19_NamesRestored ==
    [][(effects # << >> /\ effects' = << >> /\ Truthy(localStorage)) =>
          localStorage' = Stringify(displayNames')]_vars

\* the visualize request a step has just issued
IssuedVisualize ==
    /\ Len(net') = Len(net) + 1
    /\ net'[Len(net')].kind = "visualize"

\* C12: the conversation_history of a visualize request is the text of the
\* last 6 messages held before the prompt (all of them when there are fewer),
\* in their order, one line `role: content` each, joined by newlines.
C12_HistoryWindow ==
    [][IssuedVisualize =>
          LET n == Len(messages)
              k == IF n < 6 THEN n ELSE 6
              history == net'[Len(net')].body.conversation_history
              lines == Split(history, "\n")
              role(m) == IF m.role = "user" THEN <<"u", "s", "e", "r">>
                         ELSE <<"a", "s", "s", "i", "s", "t", "a", "n", "t">>
          IN  IF k = 0 THEN history = << >>
              ELSE /\ Len(lines) = k
                   /\ \A j \in 1..k :
                          lines[j] = role(messages[n - k + j]) \o <<":", " ">>
                                         \o messages[n - k + j].content]_vars

\* a visualization asked for after more than six messages: its history has
\* six lines, and the first of them is not the first message
C12_Witness ==
    \E i \in 1..Len(net) :
        /\ net[i].kind = "visualize"
        /\ Len(net[i].messages) > 6
        /\ Len(Split(net[i].body.conversation_history, "\n")) = 6
        /\ Split(net[i].body.conversation_history, "\n")[1]
               # HistoryLine(net[i].messages[1])

(***************************************************************************)
(* Claims on the core (SpecCore)                                           *)
(***************************************************************************)
\* C1: the render stage is invoked only after the plan stage has succeeded:
\* a render call was made, or is about to be, only with the plan in hand, and
\* a request whose plan stage failed has made no render call and is over.
C1_RenderOnlyAfterPlan ==
    /\ (Renders > 0 \/ phase = "Rendering") => plan = "outline"
    /\ failure.stage = "Planning" =>
           Renders = 0 /\ plan = "none" /\ phase \in {"Failed", "Idle"}

\* a visualization whose plan stage failed, with no render call made
C1_Witness ==
    /\ kind = "viz" /\ phase = "Failed" /\ failure.stage = "Planning"
    /\ attempts["Planning"] > 0 /\ Renders = 0

\* C4: delete_document(d) leaves no passage of d in the index and keeps every
\* passage of the other documents, and a query made while d is deleted
\* returns no passage of d.
C4_DeletedNotRetrieved ==
    [][/\ \A d \in CoreDocs :
              delete_document(d) =>
                  /\ \A c \in index' : c.doc # d
                  /\ \A c \in index : c.doc # d => c \in index'
       /\ (phase = "Retrieving" /\ phase' = "Assembling") =>
              \A c \in retrieved' : catalog[c.doc] # "removed"]_vars

\* with A removed and B indexed, a query has returned all of B's passages
C4_Witness ==
    /\ catalog["A"] = "removed" /\ catalog["B"] = "indexed"
    /\ phase = "Assembling"
    /\ retrieved = Chunks("B", 2)

\* C5: no provider call is attempted more than RetryBound + 1 times, and a
\* call fails on transient errors only after more than two of them: two
\* transient failures followed by a success make the request succeed.
C5_BoundedRetries ==
    /\ \A p \in Calling : attempts[p] <= RetryBound + 1
    /\ failure.error = "transient" => attempts[failure.stage] > 2

\* a request completed by the third attempt of its last provider call
C5_Witness ==
    /\ phase = "Completed" /\ kind = "qa" /\ failure = NoFailure
    /\ attempts["Streaming"] = 3

\* the phases a request passes through before it ends
Active == {"Retrieving", "Assembling", "Streaming", "Planning", "Rendering"}

\* Idle -> Retrieving -> Assembling -> Generating -> Completed, Generating
\* being Streaming for QA and Planning -> Rendering for a visualization
Successor(p, k) ==
    CASE p = "Idle" -> {"Retrieving"}
      [] p = "Retrieving" -> {"Assembling"}
      [] p = "Assembling" -> IF k = "qa" THEN {"Streaming"} ELSE {"Planning"}
      [] p = "Streaming" -> {"Completed"}
      [] p = "Planning" -> {"Rendering"}
      [] p = "Rendering" -> {"Completed"}
      [] OTHER -> {}

\* C11: the phase of a request moves only to its successor in Idle ->
\* Retrieving -> Assembling -> Generating -> Completed, or to Failed from a
\* phase in which the request is under way, never from Idle; Completed and
\* Failed are terminal: the only step from them ends the request.
C11_StateMachine ==
    [][/\ phase' # phase =>
              \/ phase' \in Successor(phase, kind')
              \/ phase \in Active /\ phase' = "Failed"
              \/ phase \in {"Completed", "Failed"} /\ Finish
       /\ phase \in Active => ENABLED (NextCore /\ phase' = "Failed")
       /\ phase = "Idle" => ~ENABLED (NextCore /\ phase' = "Failed")]_vars

\* a visualization went through every phase and failed in the last one
C11_Witness ==
    /\ kind = "viz" /\ phase = "Failed" /\ failure.stage = "Rendering"
    /\ plan = "outline" /\ attempts["Planning"] > 0 /\ retrieved # {}

(***************************************************************************)
(* Claims on FileUpload (SpecFiles), the badge (SpecBadge) and the diagram *)
(* of a reply (SpecSummary)                                                *)
(***************************************************************************)
\* the name has a dot, and what follows its last dot is, in lower case, one
\* of pdf, pptx, docx, txt
HasAllowedExtension(file) ==
    \E i \in 1..Len(file.name) :
        /\ file.name[i] = "."
        /\ \A j \in (i + 1)..Len(file.name) : file.name[j] # "."
        /\ ToLowerCase(SubSeq(file.name, i + 1, Len(file.name)))
               \in {<<"p", "d", "f">>, <<"p", "p", "t", "x">>,
                    <<"d", "o", "c", "x">>, <<"t", "x", "t">>}

\* the files of the uploads in flight, in the order they were started
Uploads(n) ==
    LET isUpload(r) == r.kind = "upload"
        file(r) == r.file
    IN  Map(SelectSeq(n, isUpload), file)

\* C8: handleFiles starts an upload exactly for the files with an extension
\* in {pdf, pptx, docx, txt}, in order, and for no other file.
C8_OnlyAllowedTypes ==
    [][\A files \in FileLists :
          handleFiles(files) =>
              Uploads(net') = Uploads(net) \o SelectSeq(files, HasAllowedExtension)]_vars

\* C9: the badge never exceeds 100, it is within 0..100 for a score in
\* [0, 1], and it is 100 or the integer nearest to 100 times the score.
C9_BadgeClamped ==
    badge # << >> =>
        LET score == source[1].relevance_score
            shown == badge[1]
        IN  /\ shown <= 100
            /\ (0 <= score /\ score <= ScoreScale) => (0 <= shown /\ shown <= 100)
            /\ \/ shown = 100 /\ 200 * score + ScoreScale >= 200 * ScoreScale
               \/ /\ 2 * (shown * ScoreScale - 100 * score) <= ScoreScale
                  /\ 2 * (100 * score - shown * ScoreScale) < ScoreScale

\* a score above 1 is shown as 100%
C9_Witness ==
    /\ badge = <<100>>
    /\ source[1].relevance_score > ScoreScale + ScoreScale \div 100

\* C10: the prompt of a diagram generated from a reply is the instruction
\* prefix followed by the first characters of the reply: all of them, or the
\* first 2000.
C10_PromptTruncated ==
    \A i \in 1..Len(net) :
        net[i].kind = "visualize" =>
            LET prompt == net[i].body.prompt
                reply == net[i].messages[2].content
                k == Len(GeneratePrefix)
                summary == SubSeq(prompt, k + 1, Len(prompt))
            IN  /\ SubSeq(prompt, 1, k) = GeneratePrefix
                /\ Len(summary) <= 2000
                /\ Len(summary) = Len(reply) \/ Len(summary) = 2000
                /\ summary = SubSeq(reply, 1, Len(summary))

\* a reply longer than 2000 characters was cut to its first 2000
C10_Witness ==
    \E i \in 1..Len(net) :
        /\ net[i].kind = "visualize"
        /\ Len(net[i].messages[2].content) > 2000
        /\ Len(net[i].body.prompt) = Len(GeneratePrefix) + 2000

====
